---- MODULE Spec2Model ----
(***************************************************************************)
(* A model of the spreadsheet editor: the CSV tokenizer parseCSV, the      *)
(* google-sheets proxy handler (serve) and the SpreadsheetEditor client.   *)
(*                                                                         *)
(* Strings are sequences of one-character strings, so that indexing,       *)
(* split, trim and toLowerCase are computed rather than assumed.           *)
(*                                                                         *)
(* The specifications share the variables:                                 *)
(*   SpecCSV        parseCSV run statement by statement on bounded texts;  *)
(*   SpecProxy      one invocation of the handler on an arbitrary request; *)
(*   Spec           the SpreadsheetEditor calling the handler;             *)
(*   SpecWithEmail  Spec for a user whose account has an email.            *)
(***************************************************************************)
EXTENDS Integers, Sequences, FiniteSets, TLC

\* ------------------------------------------------------------------------
\* Bounds of the model.

\* Longest text, in characters, that SpecCSV draws from the alphabet CsvChars.
MaxLen == 4

\* ------------------------------------------------------------------------
\* Strings.

QUOTE == "\""
COMMA == ","
NL == "\n"
SPACE == " "

\* The characters String.prototype.trim removes, among those the model uses.
Whitespace == {SPACE, NL}

\* The texts of at most n characters over the alphabet S.
RECURSIVE SeqsUpTo(_, _)
SeqsUpTo(S, n) ==
    IF n = 0 THEN {<<>>}
    ELSE LET shorter == SeqsUpTo(S, n - 1)
         IN shorter \cup {Append(s, c) : s \in {t \in shorter : Len(t) = n - 1}, c \in S}

\* csvText.split('\n'): the pieces between line feeds; n + 1 pieces for n line
\* feeds, so the empty text gives one empty line.
RECURSIVE SplitFrom(_, _, _)
SplitFrom(text, k, piece) ==
    IF k > Len(text) THEN <<piece>>
    ELSE IF text[k] = NL THEN <<piece>> \o SplitFrom(text, k + 1, <<>>)
    ELSE SplitFrom(text, k + 1, Append(piece, text[k]))

split(text) == SplitFrom(text, 1, <<>>)

\* s.trim(): s without its leading and trailing whitespace.
RECURSIVE trimStart(_)
trimStart(s) ==
    IF s # <<>> /\ Head(s) \in Whitespace THEN trimStart(Tail(s)) ELSE s

RECURSIVE trimEnd(_)
trimEnd(s) ==
    IF s # <<>> /\ s[Len(s)] \in Whitespace THEN trimEnd(SubSeq(s, 1, Len(s) - 1)) ELSE s

trim(s) == trimEnd(trimStart(s))

\* c.toLowerCase() for one character: only "U" and "V" have a lower case here.
LowerChar(c) == IF c = "U" THEN "u" ELSE IF c = "V" THEN "v" ELSE c

toLowerCase(s) == [k \in 1..Len(s) |-> LowerChar(s[k])]

\* ------------------------------------------------------------------------
\* parseCSV.

\* The locals of the scan of one line, as the loop is entered.
ScanInit == [i |-> 1, current |-> <<>>, inQuotes |-> FALSE, values |-> <<>>]

\* line[i + 1] of the code (i is 0-based there, 1-based here): the character
\* after position i, or "undefined" past the end.
CharAt(line, k) == IF k <= Len(line) THEN line[k] ELSE "undefined"

\* ScanStep without the escaped-quote case: every quote toggles the flag.
ScanStep_NoEscape(st, line) ==
    LET char == line[st.i] IN
    IF char = QUOTE
    THEN [st EXCEPT !.inQuotes = ~@, !.i = @ + 1]
    ELSE IF char = COMMA /\ ~st.inQuotes
         THEN [st EXCEPT !.values = Append(@, st.current), !.current = <<>>, !.i = @ + 1]
         ELSE [st EXCEPT !.current = Append(@, char), !.i = @ + 1]

\* One iteration of the for loop over the characters of a line, its i++ included.
ScanStep(st, line) ==
    LET char == line[st.i] IN
    IF char = QUOTE
    THEN IF st.inQuotes /\ CharAt(line, st.i + 1) = QUOTE
         THEN [st EXCEPT !.current = Append(@, QUOTE), !.i = @ + 2]
         ELSE [st EXCEPT !.inQuotes = ~@, !.i = @ + 1]
    ELSE IF char = COMMA /\ ~st.inQuotes
         THEN [st EXCEPT !.values = Append(@, st.current), !.current = <<>>, !.i = @ + 1]
         ELSE [st EXCEPT !.current = Append(@, char), !.i = @ + 1]

\* The loop run to its end, then values.push(current).
RECURSIVE ScanLine(_, _)
ScanLine(st, line) ==
    IF st.i > Len(line) THEN Append(st.values, st.current)
    ELSE ScanLine(ScanStep(st, line), line)

\* if (line.trim()): the empty string is the only falsy string.
LineIsKept(line) == trim(line) # <<>>

\* The rows of the lines from the k-th on.
RECURSIVE ParseLines(_, _)
ParseLines(lines, k) ==
    IF k > Len(lines) THEN <<>>
    ELSE IF LineIsKept(lines[k])
         THEN <<ScanLine(ScanInit, lines[k])>> \o ParseLines(lines, k + 1)
         ELSE ParseLines(lines, k + 1)

parseCSV(csvText) == ParseLines(split(csvText), 1)

\* ------------------------------------------------------------------------
\* State.

\* parseCSV run statement by statement: its argument, its position, its locals
\* (lines, the index of the current line, the locals of the scan, result), and
\* the caller's count of calls and copy of the first call's result.
VARIABLES csvText, pcCsv, lines, lineIdx, scan, result, calls, firstResult

\* One invocation of the handler: the request, the handler's position, the
\* destructured body, the verified user, the Response returned and how many
\* were returned, the outbound calls made, whether req.json() was called, the
\* body posted to the webhook, and the states of section 4.2 passed through.
VARIABLES req, pc, body, user, resp, responses, sheetFetches, webhookForwards,
          bodyRead, payload, phases

\* What the handler's awaits resolved to: getUser, the fetch of the export and
\* the webhook's reply.
VARIABLES getUserResult, sheetResponse, scriptResult

\* The environment of the handler: the webhook URL of the deployment and the
\* spreadsheet as the export endpoint served it (<<>> before the first export).
VARIABLES APPS_SCRIPT_URL, exported

csvVars == <<csvText, pcCsv, lines, lineIdx, scan, result, calls, firstResult>>

awaitVars == <<getUserResult, sheetResponse, scriptResult>>

proxyVars == <<req, pc, body, user, resp, responses, sheetFetches, webhookForwards,
               bodyRead, payload, phases, awaitVars>>

\* The SpreadsheetEditor component: what useAuth gives it (session, user), its
\* useState cells, the last toast shown, and the functions.invoke call that
\* fetchData or handleSave awaits.
VARIABLES session, account, data, loading, editingRow, editData, saving, toasts,
          invoked

envVars == <<APPS_SCRIPT_URL, exported>>

editorVars == <<session, account, data, loading, editingRow, editData, saving, toasts,
                invoked>>

vars == <<csvVars, proxyVars, envVars, editorVars>>

\* parseCSV is not running.
CsvIdle ==
    /\ csvText = <<>>
    /\ pcCsv = "idle"
    /\ lines = <<>>
    /\ lineIdx = 1
    /\ scan = [i |-> 1, current |-> <<>>, inQuotes |-> FALSE, values |-> <<>>]
    /\ result = <<>>
    /\ calls = 0
    /\ firstResult = <<>>

\* No request is being handled.
ProxyIdle ==
    /\ req = [method |-> "POST", authorization |-> <<>>, body |-> <<>>]
    /\ pc = "idle"
    /\ body = <<>>
    /\ user = <<>>
    /\ resp = <<>>
    /\ responses = 0
    /\ sheetFetches = 0
    /\ webhookForwards = 0
    /\ bodyRead = FALSE
    /\ payload = <<>>
    /\ phases = <<>>
    /\ getUserResult = <<>>
    /\ sheetResponse = <<>>
    /\ scriptResult = <<>>

\* The SpreadsheetEditor is not mounted.
EditorIdle ==
    /\ session = <<>>
    /\ account = <<>>
    /\ data = <<>>
    /\ loading = FALSE
    /\ editingRow = <<>>
    /\ editData = <<>>
    /\ saving = FALSE
    /\ toasts = <<>>
    /\ invoked = <<>>

\* ------------------------------------------------------------------------
\* Optional values: an absent (undefined, null) value is the empty sequence, a
\* present one the one-element sequence of it.

Absent == <<>>
Some(v) == <<v>>
IsSome(o) == o # <<>>
Get(o) == o[1]

\* ------------------------------------------------------------------------
\* The spreadsheet and its CSV export (the collaborator behind csvUrl).

\* Most data records of a sheet.
MaxDataRows == 2

\* The header cell of each column; column 0 holds the owner's email.
HeaderNames == << <<"e">>, <<"n">> >>

\* The cells a record may hold in column 0 and in the other columns.
EmailCells == { <<>>, <<"U", SPACE>>, <<"v">> }
ValueCells == { <<"x">>, <<"x", NL, "y">>, <<QUOTE, COMMA>> }

\* The data records: an email cell, then value cells, one per header.
Records ==
    {r \in [1..Len(HeaderNames) -> EmailCells \cup ValueCells] :
        /\ r[1] \in EmailCells
        /\ \A k \in 2..Len(HeaderNames) : r[k] \in ValueCells}

\* The sheets: the header record and at most MaxDataRows data records.
Sheets == { <<HeaderNames>> \o rs : rs \in SeqsUpTo(Records, MaxDataRows) }

\* A field as a well-formed CSV writer emits it: between quotes, with its quotes
\* doubled, when it holds a comma, a quote or a line break; as it is otherwise.
RECURSIVE DoubleQuotes(_)
DoubleQuotes(f) ==
    IF f = <<>> THEN <<>>
    ELSE (IF Head(f) = QUOTE THEN <<QUOTE, QUOTE>> ELSE <<Head(f)>>) \o DoubleQuotes(Tail(f))

EncodeField(f) ==
    IF \E k \in 1..Len(f) : f[k] \in {COMMA, QUOTE, NL}
    THEN <<QUOTE>> \o DoubleQuotes(f) \o <<QUOTE>>
    ELSE f

\* The pieces joined by the separator.
RECURSIVE Join(_, _)
Join(pieces, sep) ==
    IF pieces = <<>> THEN <<>>
    ELSE IF Len(pieces) = 1 THEN pieces[1]
    ELSE pieces[1] \o <<sep>> \o Join(Tail(pieces), sep)

EncodeRecord(r) == Join([k \in 1..Len(r) |-> EncodeField(r[k])], COMMA)

\* The text of the export: one record per line feed.
ExportCsv(sheet) == Join([k \in 1..Len(sheet) |-> EncodeRecord(sheet[k])], NL)

\* ------------------------------------------------------------------------
\* The google-sheets handler.

\* The bearer tokens of the model and the identity the provider knows for each:
\* a user with an email, a user without one; "tok_bad" is no user's token.
Tokens == {"tok_u", "tok_n", "tok_bad"}

Identity(token) ==
    IF token = "tok_u" THEN Some([email |-> Some(<<"u">>)])
    ELSE IF token = "tok_n" THEN Some([email |-> Absent])
    ELSE Absent

\* The values of the request body's fields: any JSON may be sent.
Actions == {Absent, Some("read"), Some("update"), Some("bogus")}
RowValues == {Absent} \cup {Some(r) : r \in 0..(MaxDataRows + 1)}
DataValues ==
    {Absent, Some(<<>>)} \cup {Some([h \in {HeaderNames[1]} |-> v]) : v \in {<<"u">>, <<"v">>}}

\* A body that parses as a JSON object, or Absent for one req.json() rejects.
Bodies == {Absent} \cup {Some(b) : b \in [action : Actions, row : RowValues, data : DataValues]}

Requests ==
    [method : {"OPTIONS", "POST"},
     authorization : {Absent, Some("")} \cup {Some(t) : t \in Tokens},
     body : Bodies]

\* What an await may throw: an Error with a message, or a value that is none.
Thrown == {Some("network error"), Absent}

\* The replies of the webhook that parse as JSON.
WebhookReplies ==
    {[success |-> TRUE, error |-> Absent]}
    \cup {[success |-> FALSE, error |-> e] : e \in {Absent, Some(""), Some("Not your row")}}

\* new Response(JSON.stringify(...), {status}): the fields of the JSON body.
JsonResponse(status, error, rows, email, success) ==
    [status |-> status, error |-> error, data |-> rows, userEmail |-> email,
     success |-> success]

ErrorResponse(status, message) == JsonResponse(status, Some(message), Absent, Absent, FALSE)

\* new Response(null, {headers}): status 200 and no body.
PreflightResponse == JsonResponse(200, Absent, Absent, Absent, FALSE)

\* The catch block: the caught error's message, or 'Unknown error'.
CaughtResponse(thrown) ==
    ErrorResponse(500, IF IsSome(thrown) THEN Get(thrown) ELSE "Unknown error")

\* !authHeader: no header, or an empty one.
NoAuthHeader(request) ==
    IF IsSome(request.authorization) THEN Get(request.authorization) = "" ELSE TRUE

\* authError || !user, by what getUser resolved to.
GetUserRejected_ErrorOnly(outcome) == outcome = "error"

GetUserRejected(outcome) == outcome \in {"error", "nouser"}

\* What supabase.auth.getUser(token) may do: resolve to the token's user,
\* resolve to an error or to no user, or throw.
GetUserOutcomes(token) ==
    (IF IsSome(Identity(token)) THEN {"user"} ELSE {}) \cup {"error", "nouser", "throw"}

\* action === 'read' and action === 'update'.
IsRead(b) == b.action = Some("read")

IsUpdate_NotRead(b) == b.action # Some("read")

IsUpdate(b) == b.action = Some("update")

\* A number is falsy when it is absent or 0, an object when it is absent.
FalsyNumber(n) == IF IsSome(n) THEN Get(n) = 0 ELSE TRUE
FalsyObject(o) == ~IsSome(o)

\* !row || !data.
MissingRowOrData_Both(b) == IF FalsyNumber(b.row) THEN FalsyObject(b.data) ELSE FALSE

MissingRowOrData(b) == IF FalsyNumber(b.row) THEN TRUE ELSE FalsyObject(b.data)

\* The JSON posted to the webhook, with the email of the data for userEmail.
WebhookBody_EmailFromData(b, u) ==
    [action |-> "update", row |-> Get(b.row), data |-> Get(b.data),
     userEmail |-> IF HeaderNames[1] \in DOMAIN Get(b.data)
                   THEN Some(Get(b.data)[HeaderNames[1]])
                   ELSE u.email]

\* The JSON posted to the webhook.

WebhookBody(b, u) ==
    [action |-> "update", row |-> Get(b.row), data |-> Get(b.data), userEmail |-> u.email]

\* result.error || 'Update failed': an absent or empty message gives the default.
UpdateErrorMessage(reply) ==
    IF IsSome(reply.error)
    THEN (IF Get(reply.error) # "" THEN Get(reply.error) ELSE "Update failed")
    ELSE "Update failed"

\* The handler has been called with the request and has run no statement yet.
ProxyCalled(request) ==
    /\ req = request
    /\ pc = "start"
    /\ body = Absent
    /\ user = Absent
    /\ resp = Absent
    /\ responses = 0
    /\ sheetFetches = 0
    /\ webhookForwards = 0
    /\ bodyRead = FALSE
    /\ payload = Absent
    /\ phases = <<"Unauthenticated">>
    /\ getUserResult = Absent
    /\ sheetResponse = Absent
    /\ scriptResult = Absent

\* The same, of the next state: the client's functions.invoke reached the
\* handler.
Invoke(request) ==
    /\ req' = request
    /\ pc' = "start"
    /\ body' = Absent
    /\ user' = Absent
    /\ resp' = Absent
    /\ responses' = 0
    /\ sheetFetches' = 0
    /\ webhookForwards' = 0
    /\ bodyRead' = FALSE
    /\ payload' = Absent
    /\ phases' = <<"Unauthenticated">>
    /\ getUserResult' = Absent
    /\ sheetResponse' = Absent
    /\ scriptResult' = Absent

\* The client took the response: no request is being handled.
Released ==
    /\ req' = [method |-> "POST", authorization |-> Absent, body |-> Absent]
    /\ pc' = "idle"
    /\ body' = Absent
    /\ user' = Absent
    /\ resp' = Absent
    /\ responses' = 0
    /\ sheetFetches' = 0
    /\ webhookForwards' = 0
    /\ bodyRead' = FALSE
    /\ payload' = Absent
    /\ phases' = <<>>
    /\ getUserResult' = Absent
    /\ sheetResponse' = Absent
    /\ scriptResult' = Absent

\* return new Response(...), after entering the states in entered.
Return(response, entered) ==
    /\ resp' = Some(response)
    /\ responses' = responses + 1
    /\ phases' = phases \o entered \o <<"Responded">>
    /\ pc' = "done"

\* if (req.method === 'OPTIONS') return new Response(null, ...).
Preflight ==
    /\ pc = "start"
    /\ req.method = "OPTIONS"
    /\ Return(PreflightResponse, <<>>)
    /\ UNCHANGED <<req, body, user, sheetFetches, webhookForwards, bodyRead, payload>>
    /\ UNCHANGED <<awaitVars, csvVars, envVars, editorVars>>

\* if (!authHeader) return 401.
NoAuthorization ==
    /\ pc = "start"
    /\ req.method # "OPTIONS"
    /\ NoAuthHeader(req)
    /\ Return(ErrorResponse(401, "No authorization header"), <<>>)
    /\ UNCHANGED <<req, body, user, sheetFetches, webhookForwards, bodyRead, payload>>
    /\ UNCHANGED <<awaitVars, csvVars, envVars, editorVars>>

\* createClient(...); await supabase.auth.getUser(token) is called.
CallGetUser ==
    /\ pc = "start"
    /\ req.method # "OPTIONS"
    /\ ~NoAuthHeader(req)
    /\ pc' = "getUser"
    /\ UNCHANGED <<req, body, user, resp, responses, sheetFetches, webhookForwards,
                   bodyRead, payload, phases>>
    /\ UNCHANGED <<awaitVars, csvVars, envVars, editorVars>>

\* getUser resolved to the token's user: userEmail = user.email; the handler
\* goes on to await req.json().
GetUserOk ==
    /\ pc = "getUser"
    /\ "user" \in GetUserOutcomes(Get(req.authorization))
    /\ getUserResult' = Some("user")
    /\ user' = Identity(Get(req.authorization))
    /\ phases' = Append(phases, "Authenticated")
    /\ pc' = "json"
    /\ UNCHANGED <<req, body, resp, responses, sheetFetches, webhookForwards, bodyRead,
                   payload>>
    /\ UNCHANGED <<sheetResponse, scriptResult, csvVars, envVars, editorVars>>

\* getUser resolved to an error or to no user: return 401.
GetUserFails ==
    /\ pc = "getUser"
    /\ \E outcome \in GetUserOutcomes(Get(req.authorization)) \ {"user", "throw"} :
        /\ getUserResult' = Some(outcome)
        /\ IF GetUserRejected(outcome)
           THEN Return(ErrorResponse(401, "Unauthorized"), <<>>)
           ELSE \* user is null and the check let it pass: user.email throws.
                Return(CaughtResponse(Some("user is null")), <<>>)
    /\ UNCHANGED user
    /\ UNCHANGED <<req, body, sheetFetches, webhookForwards, bodyRead, payload>>
    /\ UNCHANGED <<sheetResponse, scriptResult, csvVars, envVars, editorVars>>

\* createClient or getUser threw: the catch block returns 500.
GetUserThrows ==
    /\ pc = "getUser"
    /\ getUserResult' = Some("throw")
    /\ \E thrown \in Thrown : Return(CaughtResponse(thrown), <<>>)
    /\ UNCHANGED <<req, body, user, sheetFetches, webhookForwards, bodyRead, payload>>
    /\ UNCHANGED <<sheetResponse, scriptResult, csvVars, envVars, editorVars>>

\* await req.json() rejects a body that is no JSON object: the catch block.
JsonThrows ==
    /\ pc = "json"
    /\ ~IsSome(req.body)
    /\ bodyRead' = TRUE
    /\ Return(CaughtResponse(Some("Unexpected end of JSON input")), <<>>)
    /\ UNCHANGED <<req, body, user, sheetFetches, webhookForwards, payload>>
    /\ UNCHANGED <<awaitVars, csvVars, envVars, editorVars>>

\* action === 'read': await fetch(csvUrl) is called.
ReadFetch ==
    /\ pc = "json"
    /\ IsSome(req.body)
    /\ IsRead(Get(req.body))
    /\ bodyRead' = TRUE
    /\ body' = req.body
    /\ phases' = Append(phases, "Reading")
    /\ sheetFetches' = sheetFetches + 1
    /\ pc' = "fetch"
    /\ UNCHANGED <<req, user, resp, responses, webhookForwards, payload>>
    /\ UNCHANGED <<awaitVars, csvVars, envVars, editorVars>>

\* action === 'update' with !row || !data: return 400.
UpdateMissing ==
    /\ pc = "json"
    /\ IsSome(req.body)
    /\ ~IsRead(Get(req.body))
    /\ IsUpdate(Get(req.body))
    /\ MissingRowOrData(Get(req.body))
    /\ bodyRead' = TRUE
    /\ body' = req.body
    /\ Return(ErrorResponse(400, "Missing row or data"), <<"Updating">>)
    /\ UNCHANGED <<req, user, sheetFetches, webhookForwards, payload>>
    /\ UNCHANGED <<awaitVars, csvVars, envVars, editorVars>>

\* action === 'update' with row and data and !APPS_SCRIPT_URL: return 500.
UpdateNotConfigured ==
    /\ pc = "json"
    /\ IsSome(req.body)
    /\ ~IsRead(Get(req.body))
    /\ IsUpdate(Get(req.body))
    /\ ~MissingRowOrData(Get(req.body))
    /\ ~IsSome(APPS_SCRIPT_URL)
    /\ bodyRead' = TRUE
    /\ body' = req.body
    /\ Return(ErrorResponse(500, "Apps Script URL not configured"), <<"Updating">>)
    /\ UNCHANGED <<req, user, sheetFetches, webhookForwards, payload>>
    /\ UNCHANGED <<awaitVars, csvVars, envVars, editorVars>>

\* action === 'update' with row, data and the URL: await fetch(APPS_SCRIPT_URL,
\* {method: 'POST', body: JSON.stringify({action, row, data, userEmail})}).
UpdateForward ==
    /\ pc = "json"
    /\ IsSome(req.body)
    /\ ~IsRead(Get(req.body))
    /\ IsUpdate(Get(req.body))
    /\ ~MissingRowOrData(Get(req.body))
    /\ IsSome(APPS_SCRIPT_URL)
    /\ bodyRead' = TRUE
    /\ body' = req.body
    /\ phases' = Append(phases, "Updating")
    /\ webhookForwards' = webhookForwards + 1
    /\ payload' = Some(WebhookBody(Get(req.body), Get(user)))
    /\ pc' = "forward"
    /\ UNCHANGED <<req, user, resp, responses, sheetFetches>>
    /\ UNCHANGED <<awaitVars, csvVars, envVars, editorVars>>

\* Any other action: return 400.
InvalidAction ==
    /\ pc = "json"
    /\ IsSome(req.body)
    /\ ~IsRead(Get(req.body))
    /\ ~IsUpdate(Get(req.body))
    /\ bodyRead' = TRUE
    /\ body' = req.body
    /\ Return(ErrorResponse(400, "Invalid action"), <<>>)
    /\ UNCHANGED <<req, user, sheetFetches, webhookForwards, payload>>
    /\ UNCHANGED <<awaitVars, csvVars, envVars, editorVars>>

\* The export answered with a success status and the text of the sheet, which
\* is any sheet at the first export and the same sheet afterwards (nobody
\* edits it meanwhile); parseCSV; return {data: rows, userEmail}.
FetchOk ==
    /\ pc = "fetch"
    /\ \E sheet \in (IF exported = <<>> THEN Sheets ELSE {exported}) :
        /\ exported' = sheet
        /\ sheetResponse' = Some([ok |-> TRUE, text |-> ExportCsv(sheet)])
        /\ Return(JsonResponse(200, Absent, Some(parseCSV(ExportCsv(sheet))),
                               Get(user).email, FALSE), <<>>)
    /\ UNCHANGED APPS_SCRIPT_URL
    /\ UNCHANGED <<req, body, user, sheetFetches, webhookForwards, bodyRead, payload>>
    /\ UNCHANGED <<getUserResult, scriptResult, csvVars, editorVars>>

\* The export answered with another status: throw new Error('Failed to fetch
\* spreadsheet data'), caught.
FetchNotOk_Retry ==
    /\ pc = "fetch"
    /\ sheetFetches' = sheetFetches + 1
    /\ UNCHANGED <<req, pc, body, user, resp, responses, webhookForwards, bodyRead,
                   payload, phases>>
    /\ UNCHANGED <<awaitVars, csvVars, envVars, editorVars>>

FetchNotOk ==
    /\ pc = "fetch"
    /\ sheetResponse' = Some([ok |-> FALSE, text |-> <<>>])
    /\ Return(CaughtResponse(Some("Failed to fetch spreadsheet data")), <<>>)
    /\ UNCHANGED <<req, body, user, sheetFetches, webhookForwards, bodyRead, payload>>
    /\ UNCHANGED <<getUserResult, scriptResult, csvVars, envVars, editorVars>>

\* fetch or response.text() threw: the catch block.
FetchThrows ==
    /\ pc = "fetch"
    /\ \E thrown \in Thrown : Return(CaughtResponse(thrown), <<>>)
    /\ UNCHANGED <<req, body, user, sheetFetches, webhookForwards, bodyRead, payload>>
    /\ UNCHANGED <<awaitVars, csvVars, envVars, editorVars>>

\* The webhook's reply parsed: 400 with its error if !result.success,
\* {success: true} otherwise.
WebhookReplied ==
    /\ pc = "forward"
    /\ \E reply \in WebhookReplies :
        /\ scriptResult' = Some(reply)
        /\ IF ~reply.success
           THEN Return(ErrorResponse(400, UpdateErrorMessage(reply)), <<>>)
           ELSE Return(JsonResponse(200, Absent, Absent, Absent, TRUE), <<>>)
    /\ UNCHANGED <<req, body, user, sheetFetches, webhookForwards, bodyRead, payload>>
    /\ UNCHANGED <<getUserResult, sheetResponse, csvVars, envVars, editorVars>>

\* fetch or scriptResponse.json() threw: the catch block.
WebhookThrows ==
    /\ pc = "forward"
    /\ \E thrown \in Thrown : Return(CaughtResponse(thrown), <<>>)
    /\ UNCHANGED <<req, body, user, sheetFetches, webhookForwards, bodyRead, payload>>
    /\ UNCHANGED <<awaitVars, csvVars, envVars, editorVars>>

\* Deno.env.get('GOOGLE_APPS_SCRIPT_URL') is set or not; nothing was exported.
EnvInit ==
    /\ APPS_SCRIPT_URL \in {Absent, Some("https://script.example/exec")}
    /\ exported = <<>>

\* The handler is called with any request.
ProxyInit ==
    /\ \E request \in Requests : ProxyCalled(request)
    /\ EnvInit
    /\ CsvIdle
    /\ EditorIdle

ProxyNext ==
    \/ Preflight
    \/ NoAuthorization
    \/ CallGetUser
    \/ GetUserOk
    \/ GetUserFails
    \/ GetUserThrows
    \/ JsonThrows
    \/ ReadFetch
    \/ UpdateMissing
    \/ UpdateNotConfigured
    \/ UpdateForward
    \/ InvalidAction
    \/ FetchOk
    \/ FetchNotOk
    \/ FetchThrows
    \/ WebhookReplied
    \/ WebhookThrows

SpecProxy == ProxyInit /\ [][ProxyNext]_vars

\* ------------------------------------------------------------------------
\* The SpreadsheetEditor component.
\*
\* The component lives while useAuth gives a user (Index renders nothing
\* without one); the session may arrive later and may be refreshed. One
\* functions.invoke call is in flight at a time: a session refresh waits for the
\* call in flight to end.

\* The users: one with the email "u", one without an email.
Accounts == {[email |-> Some(<<"u">>)], [email |-> Absent]}

\* The access token of the user's session.
TokenOf(u) == IF IsSome(u.email) THEN "tok_u" ELSE "tok_n"

\* What the edit dialog's inputs may be changed to.
EditValues == {<<"z">>}

\* const userEmail = user?.email?.toLowerCase() || ''.
userEmail ==
    IF IsSome(account)
    THEN (IF IsSome(Get(account).email) THEN toLowerCase(Get(Get(account).email)) ELSE <<>>)
    ELSE <<>>

\* row[i] of a JavaScript array: absent past the end.
At(row, i) == IF i + 1 <= Len(row) THEN Some(row[i + 1]) ELSE Absent

\* row[0]?.toLowerCase().trim() === userEmail: undefined equals no string.
canEditRow(row) ==
    IF IsSome(At(row, 0)) THEN trim(toLowerCase(Get(At(row, 0)))) = userEmail ELSE FALSE

\* rowData of handleEdit: rowData[header] = row[i] || '' for each header in
\* turn, a later column of the same name overwriting an earlier one.
RECURSIVE RowData(_, _, _, _)
RowData(headers, row, i, rowData) ==
    IF i >= Len(headers) THEN rowData
    ELSE LET header == headers[i + 1]
             value == IF IsSome(At(row, i)) THEN Get(At(row, i)) ELSE <<>>
         IN RowData(headers, row, i + 1,
                    [h \in DOMAIN rowData \cup {header} |->
                        IF h = header THEN value ELSE rowData[h]])

\* {...editData, [header]: value}.
WithKey(map, header, value) ==
    [h \in DOMAIN map \cup {header} |-> IF h = header THEN value ELSE map[h]]

\* The body handleSave sends.
SaveBody(rowIndex, map) ==
    [action |-> Some("update"), row |-> Some(rowIndex + 2), data |-> Some(map)]

\* The request supabase.functions.invoke('google-sheets', {body}) sends: a
\* POST with the session's access token, or the project's anon key, which is
\* no user's token, without a session.
InvokeRequest(b) ==
    [method |-> "POST",
     authorization |-> Some(IF IsSome(session) THEN Get(session) ELSE "tok_bad"),
     body |-> Some(b)]

\* The spinner is shown instead of everything else.
Spinner == loading

\* The table is rendered: not loading, and data with at least one row.
TableShown ==
    /\ ~loading
    /\ IsSome(data)
    /\ Get(data).rows # <<>>

\* The dialog is open (it is rendered with the table).
DialogOpen == TableShown /\ IsSome(editingRow)

\* invoke resolved with an error: the handler answered with a status that is
\* not 2xx.
InvokeError == Get(resp).status # 200

\* fetchData() up to its await, for a session s: nothing without a session;
\* setLoading(true) and the invoke of {action: 'read'} with one.
FetchDataCalled ==
    IF IsSome(session)
    THEN /\ loading' = TRUE
         /\ invoked' = Some([fn |-> "fetchData", row |-> Absent])
         /\ Invoke(InvokeRequest([action |-> Some("read"), row |-> Absent, data |-> Absent]))
    ELSE /\ UNCHANGED <<loading>>
         /\ invoked' = Absent
         /\ Released

\* The component has mounted with its initial state and the effect on
\* [session] has run fetchData once.
EditorInit ==
    /\ account \in {Some(u) : u \in Accounts}
    /\ session \in {Absent, Some(TokenOf(Get(account)))}
    /\ data = Absent
    /\ loading = TRUE
    /\ editingRow = Absent
    /\ editData = <<>>
    /\ saving = FALSE
    /\ toasts = Absent
    /\ IF IsSome(session)
       THEN /\ invoked = Some([fn |-> "fetchData", row |-> Absent])
            /\ ProxyCalled(InvokeRequest([action |-> Some("read"), row |-> Absent,
                                          data |-> Absent]))
       ELSE /\ invoked = Absent
            /\ ProxyIdle

\* useAuth gives a session for the first time: the effect runs fetchData.
SessionArrives ==
    /\ session = Absent
    /\ invoked = Absent
    /\ session' = Some(TokenOf(Get(account)))
    /\ loading' = TRUE
    /\ invoked' = Some([fn |-> "fetchData", row |-> Absent])
    /\ Invoke([method |-> "POST",
               authorization |-> Some(TokenOf(Get(account))),
               body |-> Some([action |-> Some("read"), row |-> Absent, data |-> Absent])])
    /\ UNCHANGED <<account, data, editingRow, editData, saving, toasts>>
    /\ UNCHANGED <<csvVars, envVars>>

\* useAuth gives a new session object for the same user (a token refresh): the
\* effect runs fetchData again.
SessionRefreshed ==
    /\ IsSome(session)
    /\ invoked = Absent
    /\ FetchDataCalled
    /\ UNCHANGED <<session, account, data, editingRow, editData, saving, toasts>>
    /\ UNCHANGED <<csvVars, envVars>>

\* A click on one of the two refresh buttons, which are hidden by the spinner
\* and covered by the open dialog.
Refresh ==
    /\ ~Spinner
    /\ ~DialogOpen
    /\ invoked = Absent
    /\ IsSome(session)
    /\ FetchDataCalled
    /\ UNCHANGED <<session, account, data, editingRow, editData, saving, toasts>>
    /\ UNCHANGED <<csvVars, envVars>>

\* fetchData's invoke resolved with an error: toast.error; finally
\* setLoading(false).
FetchDataFails ==
    /\ IsSome(invoked)
    /\ Get(invoked).fn = "fetchData"
    /\ pc = "done"
    /\ InvokeError
    /\ toasts' = Some([kind |-> "error", message |-> "load failed"])
    /\ loading' = FALSE
    /\ invoked' = Absent
    /\ Released
    /\ UNCHANGED <<session, account, data, editingRow, editData, saving>>
    /\ UNCHANGED <<csvVars, envVars>>

\* fetchData's invoke resolved with a result: setData of the header row and
\* the rest when result.data has a row; finally setLoading(false).
FetchDataSucceeds ==
    /\ IsSome(invoked)
    /\ Get(invoked).fn = "fetchData"
    /\ pc = "done"
    /\ ~InvokeError
    /\ LET rows == Get(resp).data
       IN IF IsSome(rows) /\ Get(rows) # <<>>
          THEN data' = Some([headers |-> Get(rows)[1], rows |-> Tail(Get(rows))])
          ELSE UNCHANGED data
    /\ loading' = FALSE
    /\ invoked' = Absent
    /\ Released
    /\ UNCHANGED <<session, account, editingRow, editData, saving, toasts>>
    /\ UNCHANGED <<csvVars, envVars>>

\* A click on the pencil of a row, which is rendered when canEditRow(row):
\* handleEdit(rowIndex).
HandleEdit ==
    /\ TableShown
    /\ ~DialogOpen
    /\ \E rowIndex \in 0..(Len(Get(data).rows) - 1) :
        LET row == Get(data).rows[rowIndex + 1]
        IN /\ canEditRow(row)
           /\ editData' = RowData(Get(data).headers, row, 0, <<>>)
           /\ editingRow' = Some(rowIndex)
    /\ UNCHANGED <<session, account, data, loading, saving, toasts, invoked>>
    /\ UNCHANGED <<csvVars, proxyVars, envVars>>

\* Typing in the input of a header other than the first, whose input is
\* disabled: setEditData({...editData, [header]: value}).
DialogChange ==
    /\ DialogOpen
    /\ \E i \in 1..(Len(Get(data).headers) - 1), value \in EditValues :
        /\ editData' = WithKey(editData, Get(data).headers[i + 1], value)
        /\ editData' # editData
    /\ UNCHANGED <<session, account, data, loading, editingRow, saving, toasts, invoked>>
    /\ UNCHANGED <<csvVars, proxyVars, envVars>>

\* The cancel button or the dialog's onOpenChange: setEditingRow(null).
DialogClose ==
    /\ DialogOpen
    /\ editingRow' = Absent
    /\ UNCHANGED <<session, account, data, loading, editData, saving, toasts, invoked>>
    /\ UNCHANGED <<csvVars, proxyVars, envVars>>

\* A click on the save button, disabled while saving: handleSave up to its
\* await.
HandleSave ==
    /\ DialogOpen
    /\ ~saving
    /\ invoked = Absent
    /\ saving' = TRUE
    /\ invoked' = Some([fn |-> "handleSave", row |-> editingRow])
    /\ Invoke(InvokeRequest(SaveBody(Get(editingRow), editData)))
    /\ UNCHANGED <<session, account, data, loading, editingRow, editData, toasts>>
    /\ UNCHANGED <<csvVars, envVars>>

\* handleSave's invoke resolved with an error: toast.error; finally
\* setSaving(false). With the dialog closed on the way.
HandleSaveFails_ClosesDialog ==
    /\ IsSome(invoked)
    /\ Get(invoked).fn = "handleSave"
    /\ pc = "done"
    /\ InvokeError
    /\ toasts' = Some([kind |-> "error", message |-> "save failed"])
    /\ editingRow' = Absent
    /\ saving' = FALSE
    /\ invoked' = Absent
    /\ Released
    /\ UNCHANGED <<session, account, data, loading, editData>>
    /\ UNCHANGED <<csvVars, envVars>>

\* handleSave's invoke resolved with an error: toast.error; finally
\* setSaving(false).
HandleSaveFails ==
    /\ IsSome(invoked)
    /\ Get(invoked).fn = "handleSave"
    /\ pc = "done"
    /\ InvokeError
    /\ toasts' = Some([kind |-> "error", message |-> "save failed"])
    /\ saving' = FALSE
    /\ invoked' = Absent
    /\ Released
    /\ UNCHANGED <<session, account, data, loading, editingRow, editData>>
    /\ UNCHANGED <<csvVars, envVars>>

\* handleSave's invoke resolved without error: toast.success;
\* setEditingRow(null); fetchData(); finally setSaving(false).
HandleSaveSucceeds ==
    /\ IsSome(invoked)
    /\ Get(invoked).fn = "handleSave"
    /\ pc = "done"
    /\ ~InvokeError
    /\ toasts' = Some([kind |-> "success", message |-> "saved"])
    /\ editingRow' = Absent
    /\ FetchDataCalled
    /\ saving' = FALSE
    /\ UNCHANGED <<session, account, data, editData>>
    /\ UNCHANGED <<csvVars, envVars>>

\* The component and the handler it calls. A request of the component is a
\* POST with a token and a body that parses, with the action "read", or
\* "update" with a row of 2 or more and the edit data: the handler's branches
\* for other requests are not part of this specification.
Init ==
    /\ EditorInit
    /\ EnvInit
    /\ CsvIdle

Next ==
    \/ SessionArrives
    \/ SessionRefreshed
    \/ Refresh
    \/ FetchDataFails
    \/ FetchDataSucceeds
    \/ HandleEdit
    \/ DialogChange
    \/ DialogClose
    \/ HandleSave
    \/ HandleSaveFails
    \/ HandleSaveSucceeds
    \/ CallGetUser
    \/ GetUserOk
    \/ GetUserFails
    \/ GetUserThrows
    \/ ReadFetch
    \/ UpdateNotConfigured
    \/ UpdateForward
    \/ FetchOk
    \/ FetchNotOk
    \/ FetchThrows
    \/ WebhookReplied
    \/ WebhookThrows

Spec == Init /\ [][Next]_vars

\* The same for a user who has an email.
InitWithEmail ==
    /\ Init
    /\ IsSome(Get(account).email)

SpecWithEmail == InitWithEmail /\ [][Next]_vars

\* The alphabet of the drawn texts: a letter, the two special characters, a
\* blank and the line feed.
CsvChars == {"a", COMMA, QUOTE, SPACE, NL}

\* The four texts of the specification's examples.
ExampleTexts ==
    { <<"a", ",", "b", ",", "c">>,
      <<"a", ",", QUOTE, "b", ",", "c", QUOTE, ",", "d">>,
      <<"a", ",", QUOTE, "b", QUOTE, QUOTE, "c", QUOTE, ",", "d">>,
      <<"a", ",", "b", NL, NL, "c", ",", "d">> }

CsvTexts == SeqsUpTo(CsvChars, MaxLen) \cup ExampleTexts

\* parseCSV is about to be called on a drawn text; nothing of an earlier call
\* exists.
CsvInit ==
    /\ csvText \in CsvTexts
    /\ pcCsv = "call"
    /\ lines = <<>>
    /\ lineIdx = 1
    /\ scan = ScanInit
    /\ result = <<>>
    /\ calls = 1
    /\ firstResult = <<>>
    /\ ProxyIdle
    /\ EnvInit
    /\ EditorIdle

\* const lines = csvText.split('\n'); const result = [];
ParseEnter ==
    /\ pcCsv = "call"
    /\ lines' = split(csvText)
    /\ result' = <<>>
    /\ lineIdx' = 1
    /\ pcCsv' = "line"
    /\ UNCHANGED <<csvText, scan, calls, firstResult>>
    /\ UNCHANGED <<proxyVars, envVars, editorVars>>

\* for (const line of lines) with line.trim() empty: the line gives no row.
SkipLine ==
    /\ pcCsv = "line"
    /\ lineIdx <= Len(lines)
    /\ ~LineIsKept(lines[lineIdx])
    /\ lineIdx' = lineIdx + 1
    /\ UNCHANGED <<csvText, pcCsv, lines, scan, result, calls, firstResult>>
    /\ UNCHANGED <<proxyVars, envVars, editorVars>>

\* A kept line: values = [], current = '', inQuotes = false, i = 0.
BeginLine ==
    /\ pcCsv = "line"
    /\ lineIdx <= Len(lines)
    /\ LineIsKept(lines[lineIdx])
    /\ scan' = ScanInit
    /\ pcCsv' = "scan"
    /\ UNCHANGED <<csvText, lines, lineIdx, result, calls, firstResult>>
    /\ UNCHANGED <<proxyVars, envVars, editorVars>>

\* One iteration of the inner loop.
ScanChar ==
    /\ pcCsv = "scan"
    /\ scan.i <= Len(lines[lineIdx])
    /\ scan' = ScanStep(scan, lines[lineIdx])
    /\ UNCHANGED <<csvText, pcCsv, lines, lineIdx, result, calls, firstResult>>
    /\ UNCHANGED <<proxyVars, envVars, editorVars>>

\* The loop is over: values.push(current); result.push(values).
EndLine ==
    /\ pcCsv = "scan"
    /\ scan.i > Len(lines[lineIdx])
    /\ result' = Append(result, Append(scan.values, scan.current))
    /\ lineIdx' = lineIdx + 1
    /\ pcCsv' = "line"
    /\ UNCHANGED <<csvText, lines, scan, calls, firstResult>>
    /\ UNCHANGED <<proxyVars, envVars, editorVars>>

\* return result.
ParseReturn ==
    /\ pcCsv = "line"
    /\ lineIdx > Len(lines)
    /\ pcCsv' = "done"
    /\ UNCHANGED <<csvText, lines, lineIdx, scan, result, calls, firstResult>>
    /\ UNCHANGED <<proxyVars, envVars, editorVars>>

\* The caller keeps the first result and calls parseCSV on the same text again.
ParseAgain ==
    /\ pcCsv = "done"
    /\ calls = 1
    /\ firstResult' = result
    /\ calls' = 2
    /\ pcCsv' = "call"
    /\ UNCHANGED <<csvText, lines, lineIdx, scan, result>>
    /\ UNCHANGED <<proxyVars, envVars, editorVars>>

CsvNext ==
    \/ ParseEnter
    \/ SkipLine
    \/ BeginLine
    \/ ScanChar
    \/ EndLine
    \/ ParseReturn
    \/ ParseAgain

SpecCSV == CsvInit /\ [][CsvNext]_vars

\* ------------------------------------------------------------------------
\* C6: the tokenizer.

\* The lines of a text that hold a character that is not whitespace.
C6_KeptLines(text) ==
    LET ls == split(text)
    IN SelectSeq(ls, LAMBDA l : \E k \in 1..Len(l) : l[k] \notin Whitespace)

\* The commas of l[k..] that lie outside quotes, inQ being the in-quotes flag
\* before l[k]: a quote followed by a quote inside quotes is skipped with it.
RECURSIVE C6_CommasOutside(_, _, _)
C6_CommasOutside(l, k, inQ) ==
    IF k > Len(l) THEN 0
    ELSE IF l[k] = QUOTE
         THEN IF inQ /\ k < Len(l) /\ l[k + 1] = QUOTE
              THEN C6_CommasOutside(l, k + 2, inQ)
              ELSE C6_CommasOutside(l, k + 1, ~inQ)
         ELSE (IF l[k] = COMMA /\ ~inQ THEN 1 ELSE 0) + C6_CommasOutside(l, k + 1, inQ)

\* The fields of a row one after the other.
RECURSIVE C6_Flatten(_)
C6_Flatten(row) == IF row = <<>> THEN <<>> ELSE Head(row) \o C6_Flatten(Tail(row))

\* The characters of s that are neither quotes nor commas, in order.
C6_Plain(s) == SelectSeq(s, LAMBDA c : c # QUOTE /\ c # COMMA)

\* What one iteration of the scan does, by the character under the cursor.
C6_StepRule ==
    (pcCsv = "scan" /\ pcCsv' = "scan" /\ scan' # scan) =>
        LET line == lines[lineIdx]
            c == line[scan.i]
            escaped == c = QUOTE /\ scan.inQuotes /\ scan.i < Len(line)
                       /\ line[scan.i + 1] = QUOTE
        IN /\ escaped =>
                /\ scan'.current = Append(scan.current, QUOTE)
                /\ scan'.i = scan.i + 2
                /\ scan'.inQuotes = scan.inQuotes
                /\ scan'.values = scan.values
           /\ (c = QUOTE /\ ~escaped) =>
                /\ scan'.inQuotes = ~scan.inQuotes
                /\ scan'.current = scan.current
                /\ scan'.values = scan.values
                /\ scan'.i = scan.i + 1
           /\ (c = COMMA /\ ~scan.inQuotes) =>
                /\ scan'.values = Append(scan.values, scan.current)
                /\ scan'.current = <<>>
                /\ scan'.inQuotes = scan.inQuotes
                /\ scan'.i = scan.i + 1
           /\ (c # QUOTE /\ ~(c = COMMA /\ ~scan.inQuotes)) =>
                /\ scan'.current = Append(scan.current, c)
                /\ scan'.values = scan.values
                /\ scan'.inQuotes = scan.inQuotes
                /\ scan'.i = scan.i + 1

\* What parseCSV has returned.
C6_Returned ==
    pcCsv = "done" =>
        LET kept == C6_KeptLines(csvText)
        IN /\ Len(result) = Len(kept)
           /\ \A r \in 1..Len(result) :
                /\ Len(result[r]) >= 1
                /\ Len(result[r]) = 1 + C6_CommasOutside(kept[r], 1, FALSE)
                /\ C6_Plain(C6_Flatten(result[r])) = C6_Plain(kept[r])
           /\ csvText = <<"a", ",", "b", ",", "c">> =>
                result = << << <<"a">>, <<"b">>, <<"c">> >> >>
           /\ csvText = <<"a", ",", QUOTE, "b", ",", "c", QUOTE, ",", "d">> =>
                result = << << <<"a">>, <<"b", ",", "c">>, <<"d">> >> >>
           /\ csvText = <<"a", ",", QUOTE, "b", QUOTE, QUOTE, "c", QUOTE, ",", "d">> =>
                result = << << <<"a">>, <<"b", QUOTE, "c">>, <<"d">> >> >>
           /\ csvText = <<"a", ",", "b", NL, NL, "c", ",", "d">> =>
                result = << << <<"a">>, <<"b">> >>, << <<"c">>, <<"d">> >> >>
           /\ calls = 2 => result = firstResult

\* parseCSV never stops before it returns.
C6_Total == (pcCsv # "done") => ENABLED CsvNext

\* C6: parseCSV returns one row per line that is not empty or whitespace-only,
\* in input order; a quote toggles the in-quotes flag unless it is the first of
\* two quotes inside quotes, which give one literal quote; a comma ends the
\* field only outside quotes; any other character is appended; the last field
\* is pushed even if empty, so a row has one field more than it has commas
\* outside quotes; the four examples parse as stated; the function returns on
\* every text, and a second call on the same text returns the same rows.
C6_Tokenizer == [](C6_Returned /\ C6_Total) /\ [][C6_StepRule]_vars

\* The escaped-quote example has been parsed twice, with the literal quote kept.
C6_Witness ==
    /\ pcCsv = "done"
    /\ calls = 2
    /\ csvText = <<"a", ",", QUOTE, "b", QUOTE, QUOTE, "c", QUOTE, ",", "d">>
    /\ result = << << <<"a">>, <<"b", QUOTE, "c">>, <<"d">> >> >>
\* ------------------------------------------------------------------------
\* C1 to C5 and C7: the handler.

\* The request has a body that parses, with these fields.
Parsed == Get(req.body)

\* No outbound call was made and the body was not read.
NothingDone == ~bodyRead /\ sheetFetches = 0 /\ webhookForwards = 0

\* C1: a request that is no preflight and has no Authorization header is
\* answered 401 {error: "No authorization header"}; one whose token the
\* identity provider answers with an error or with no user is answered 401
\* {error: "Unauthorized"}; in both cases the body is not read and nothing is
\* fetched or forwarded; the body is read, the sheet fetched or the webhook
\* called only after getUser gave a user in this request.
C1_AuthGate ==
    /\ (pc = "done" /\ req.method # "OPTIONS" /\ ~IsSome(req.authorization)) =>
            /\ resp = Some(ErrorResponse(401, "No authorization header"))
            /\ NothingDone
    /\ (pc = "done" /\ getUserResult \in {Some("error"), Some("nouser")}) =>
            /\ resp = Some(ErrorResponse(401, "Unauthorized"))
            /\ NothingDone
    /\ ~NothingDone => (getUserResult = Some("user") /\ IsSome(user))

\* A read request whose token's user the provider did not return was refused.
C1_Witness ==
    /\ pc = "done"
    /\ getUserResult = Some("nouser")
    /\ req.authorization = Some("tok_u")
    /\ req.body # Absent
    /\ Parsed.action = Some("read")
    /\ Get(resp).status = 401
    /\ NothingDone

\* The request is an authenticated update whose body parsed.
AuthenticatedUpdate ==
    /\ getUserResult = Some("user")
    /\ req.body # Absent
    /\ Parsed.action = Some("update")

\* C2: an authenticated update without row or without data is answered 400
\* {error: "Missing row or data"} and nothing is forwarded, whether or not the
\* webhook URL is configured; an update with a row position (1 or more) and a
\* data mapping is not answered with this error.
C2_UpdateValidation ==
    (pc = "done" /\ AuthenticatedUpdate) =>
        /\ (Parsed.row = Absent \/ Parsed.data = Absent) =>
                /\ resp = Some(ErrorResponse(400, "Missing row or data"))
                /\ webhookForwards = 0
        /\ (Parsed.row # Absent /\ Parsed.row # Some(0) /\ Parsed.data # Absent) =>
                Get(resp).error # Some("Missing row or data")

\* An update with a row and no data was refused although no URL is configured.
C2_Witness ==
    /\ pc = "done"
    /\ AuthenticatedUpdate
    /\ Parsed.row = Some(2)
    /\ Parsed.data = Absent
    /\ APPS_SCRIPT_URL = Absent
    /\ resp = Some(ErrorResponse(400, "Missing row or data"))

\* The place of a state in the order of section 4.2.
PhaseRank(p) ==
    CASE p = "Unauthenticated" -> 1
      [] p = "Authenticated" -> 2
      [] p \in {"Reading", "Updating"} -> 3
      [] p = "Responded" -> 4

\* C3: an authenticated request whose action is neither "read" nor "update",
\* or absent, is answered 400 {error: "Invalid action"} with nothing fetched or
\* forwarded; the states a request passes through start at Unauthenticated and
\* only advance in the order Unauthenticated, Authenticated, Reading or
\* Updating, Responded, the last two only after Authenticated; a request gets
\* no response before it is done and exactly one when it is.
C3_Dispatch ==
    /\ (pc = "done" /\ getUserResult = Some("user") /\ req.body # Absent
          /\ Parsed.action \notin {Some("read"), Some("update")}) =>
            /\ resp = Some(ErrorResponse(400, "Invalid action"))
            /\ sheetFetches = 0
            /\ webhookForwards = 0
    /\ phases[1] = "Unauthenticated"
    /\ \A k \in 1..(Len(phases) - 1) : PhaseRank(phases[k]) < PhaseRank(phases[k + 1])
    /\ \A k \in 1..Len(phases) :
            phases[k] \in {"Reading", "Updating"} => phases[k - 1] = "Authenticated"
    /\ (phases[Len(phases)] = "Responded") = (pc = "done")
    /\ responses = (IF pc = "done" THEN 1 ELSE 0)
    /\ (resp # Absent) = (pc = "done")

\* A request without an action was refused after authentication.
C3_Witness ==
    /\ pc = "done"
    /\ req.body # Absent
    /\ Parsed.action = Absent
    /\ phases = <<"Unauthenticated", "Authenticated", "Responded">>
    /\ resp = Some(ErrorResponse(400, "Invalid action"))

\* C4: one invocation makes at most one outbound call to the export and the
\* webhook together; a read makes exactly one fetch and no forward; an update
\* with row, data and a configured URL makes exactly one forward and no fetch;
\* a fetch answered with a failure status, or a webhook reply reporting
\* failure, ends the request at once with an error response.
C4_OutboundBound ==
    /\ sheetFetches + webhookForwards <= 1
    /\ (body # Absent /\ Get(body).action = Some("read")) =>
            (sheetFetches = 1 /\ webhookForwards = 0)
    /\ (body # Absent /\ Get(body).action = Some("update")
          /\ Get(body).row \notin {Absent, Some(0)} /\ Get(body).data # Absent
          /\ APPS_SCRIPT_URL # Absent) =>
            (webhookForwards = 1 /\ sheetFetches = 0)
    /\ (sheetResponse # Absent /\ ~Get(sheetResponse).ok) =>
            (pc = "done" /\ Get(resp).status = 500 /\ sheetFetches = 1)
    /\ (scriptResult # Absent /\ ~Get(scriptResult).success) =>
            (pc = "done" /\ Get(resp).status = 400 /\ webhookForwards = 1)
    /\ (pc = "done" /\ sheetFetches + webhookForwards = 1
          /\ sheetResponse = Absent /\ scriptResult = Absent) =>
            Get(resp).status = 500

\* A fetch answered with a failure status ended the read with a 500.
C4_Witness ==
    /\ pc = "done"
    /\ sheetResponse # Absent
    /\ ~Get(sheetResponse).ok
    /\ sheetFetches = 1
    /\ resp = Some(ErrorResponse(500, "Failed to fetch spreadsheet data"))

\* C5: an authenticated update with row, data and a configured URL posts
\* exactly {action: "update", row, data, userEmail} to the webhook, row and
\* data being the request's and userEmail the email of the token's identity,
\* whatever email the data names; a reply reporting failure is answered 400
\* with the reply's error, or "Update failed" when it has none; a reply
\* reporting success is answered {success: true}.
C5_UpdateRelay ==
    /\ (pc \in {"forward", "done"} /\ AuthenticatedUpdate
          /\ Parsed.row \notin {Absent, Some(0)} /\ Parsed.data # Absent
          /\ APPS_SCRIPT_URL # Absent) =>
            /\ webhookForwards = 1
            /\ payload = Some([action |-> "update",
                               row |-> Get(Parsed.row),
                               data |-> Get(Parsed.data),
                               userEmail |-> Get(Identity(Get(req.authorization))).email])
    /\ (payload = Absent) = (webhookForwards = 0)
    /\ (scriptResult # Absent /\ ~Get(scriptResult).success) =>
            resp = Some(ErrorResponse(400,
                    IF Get(scriptResult).error \in {Absent, Some("")}
                    THEN "Update failed"
                    ELSE Get(Get(scriptResult).error)))
    /\ (scriptResult # Absent /\ Get(scriptResult).success) =>
            resp = Some(JsonResponse(200, Absent, Absent, Absent, TRUE))

\* The update of a row that the data gives to "v" was forwarded for the caller
\* "u", and the webhook's failure without a message was relayed.
C5_Witness ==
    /\ pc = "done"
    /\ payload # Absent
    /\ Get(payload).userEmail = Some(<<"u">>)
    /\ Get(payload).data = [h \in {HeaderNames[1]} |-> <<"v">>]
    /\ scriptResult = Some([success |-> FALSE, error |-> Absent])
    /\ resp = Some(ErrorResponse(400, "Update failed"))

\* C7: a successful read of a sheet of a header and N data records returns
\* the header row and then exactly N rows, each with as many fields as the
\* header; a fetch answered with a failure status is answered 500, without
\* rows.
C7_RoundTrip ==
    /\ (pc = "done" /\ sheetResponse # Absent /\ Get(sheetResponse).ok) =>
            /\ Get(resp).data # Absent
            /\ Get(resp).userEmail = Get(user).email
            /\ LET rows == Get(Get(resp).data)
               IN /\ Len(rows) = Len(exported)
                  /\ rows[1] = exported[1]
                  /\ \A r \in 1..Len(rows) : Len(rows[r]) = Len(exported[1])
    /\ (pc = "done" /\ sheetResponse # Absent /\ ~Get(sheetResponse).ok) =>
            /\ Get(resp).status = 500
            /\ Get(resp).data = Absent

\* ------------------------------------------------------------------------
\* C8 to C10: the SpreadsheetEditor.

\* The data row the edit session is about.
EditedRow == Get(data).rows[Get(editingRow) + 1]

\* C8: an edit session exists only for a data row whose column 0, lower-cased
\* and trimmed, is the user's account email; a row whose column 0 is missing,
\* empty or another email is never in an edit session, also when the user has
\* no email; the edit data's value for column 0 stays the row's column 0.
C8_Ownership ==
    IsSome(editingRow) =>
        /\ IsSome(data)
        /\ Get(editingRow) < Len(Get(data).rows)
        /\ IsSome(At(EditedRow, 0))
        /\ trim(Get(At(EditedRow, 0))) # <<>>
        /\ IsSome(Get(account).email)
        /\ trim(toLowerCase(Get(At(EditedRow, 0)))) = toLowerCase(Get(Get(account).email))
        /\ editData[Get(data).headers[1]] = Get(At(EditedRow, 0))

\* The lines a record's encoding takes in the export.
C9_LinesOf(record) == Len(split(EncodeRecord(record)))

\* The 1-based position in the sheet of the record whose encoding holds line
\* n of the export, counting from record k.
RECURSIVE C9_RecordAtLine(_, _, _)
C9_RecordAtLine(sheet, k, n) ==
    IF n <= C9_LinesOf(sheet[k]) THEN k
    ELSE C9_RecordAtLine(sheet, k + 1, n - C9_LinesOf(sheet[k]))

\* The numbers of the lines of a text that parseCSV keeps, in order.
C9_KeptLineNumbers(text) ==
    LET ls == split(text)
    IN SelectSeq([n \in 1..Len(ls) |-> n],
                 LAMBDA n : \E k \in 1..Len(ls[n]) : ls[n][k] \notin Whitespace)

\* The 1-based sheet position of the record behind the data row of index i of
\* a read of the sheet (the header row is row 1 of the read).
C9_SheetPosition(sheet, i) ==
    C9_RecordAtLine(sheet, 1, C9_KeptLineNumbers(ExportCsv(sheet))[i + 2])

\* C9: when the client saves the edit of the data row of index i, the row it
\* sends is i + 2, the webhook receives that value, and it is the 1-based
\* position in the sheet of that data row, row 1 being the header.
C9_RowAddressing ==
    (IsSome(invoked) /\ Get(invoked).fn = "handleSave") =>
        LET i == Get(Get(invoked).row)
        IN /\ Get(req.body).row = Some(i + 2)
           /\ IsSome(payload) =>
                /\ Get(payload).row = i + 2
                /\ Get(payload).row = C9_SheetPosition(exported, i)

\* The step in which fetchData's, or handleSave's, invoke resolves with an error.
C10_FetchFailure ==
    /\ IsSome(invoked)
    /\ Get(invoked).fn = "fetchData"
    /\ pc = "done"
    /\ InvokeError
    /\ invoked' # invoked

C10_SaveFailure ==
    /\ IsSome(invoked)
    /\ Get(invoked).fn = "handleSave"
    /\ pc = "done"
    /\ InvokeError
    /\ invoked' # invoked

\* C10: when a read made by fetchData fails, an error toast is shown, the
\* sheet data, the edit session and the edit values stay as they are and
\* loading is cleared; when an update made by handleSave fails, an error toast
\* is shown, the sheet data, the edit session and the edit values stay as they
\* are and saving is cleared.
C10_ErrorFrame ==
    [][ /\ C10_FetchFailure =>
            /\ toasts' # Absent
            /\ Get(toasts').kind = "error"
            /\ data' = data
            /\ editingRow' = editingRow
            /\ editData' = editData
            /\ loading' = FALSE
        /\ C10_SaveFailure =>
            /\ toasts' # Absent
            /\ Get(toasts').kind = "error"
            /\ data' = data
            /\ editingRow' = editingRow
            /\ editData' = editData
            /\ saving' = FALSE
      ]_vars

\* A save has failed: the error toast is up, the dialog is still open on the
\* row with the value typed into it, and saving is cleared.
C10_Witness ==
    /\ toasts = Some([kind |-> "error", message |-> "save failed"])
    /\ invoked = Absent
    /\ DialogOpen
    /\ ~saving
    /\ editData[HeaderNames[2]] = <<"z">>
    /\ Get(data).rows[Get(editingRow) + 1][2] # <<"z">>

====
